---- MODULE Spec2Model ----
(***************************************************************************)
(* A model of go-trump (src/main.go): one run of the bot.  main loads the  *)
(* optional .env file, checks the retirement date, asks the text service   *)
(* for a post (getPost / makeOpenAIRequest), reads the Bluesky credentials *)
(* from the environment, authenticates and publishes the post.             *)
(*                                                                         *)
(* The program is sequential; pc is main's position.  Every blocking HTTP  *)
(* call is two steps, the request leaving and the response (or transport   *)
(* error) arriving, so that the order of the calls is observable.  The     *)
(* remote services and the wall clock are the environment: a response is   *)
(* any element of a small set, and the clock moves while a call blocks.    *)
(*                                                                         *)
(* json.Marshal of string maps and http.NewRequest on a constant URL       *)
(* cannot fail, so lines 88-90, 93-95, 133-135, 138-140, 185-187 and       *)
(* 190-192 have no transition.                                             *)
(***************************************************************************)
EXTENDS Integers, Sequences, FiniteSets, TLC

VARIABLES
    environ,       \* the process environment (os.Getenv / os.Setenv)
    dotenv,        \* the .env file in the working directory
    now,           \* package variable now, main.go:34
    clock,         \* the wall clock read by time.Now()
    pc,            \* main's position
    post,          \* main's local post
    genErr,        \* the error getPost logged (err of main.go:242)
    username,      \* main's local username
    password,      \* main's local password
    authResponse,  \* main's local authResponse
    err,           \* main's local err
    resp,          \* the HTTP response authenticate / postMessage last received
    genReq,        \* the request makeOpenAIRequest sent
    authReq,       \* the request authenticate sent
    postReq,       \* the request postMessage sent
    calls,         \* the outbound calls of the run, in order
    output,        \* what the run printed or logged, in order
    exitCode       \* the process's exit status once pc = "exit"

vars == <<environ, dotenv, now, clock, pc, post, genErr, username, password,
          authResponse, err, resp, genReq, authReq, postReq, calls, output,
          exitCode>>

-----------------------------------------------------------------------------
(* Bounds of the model *)

\* the clock's resolution: instants per second (Go's is 10^9)
SubSec == 3
\* the longest a single HTTP call blocks, in clock instants (the shortest is
\* one instant: a call takes time)
MaxElapsed == 3

-----------------------------------------------------------------------------
(* time.Time: seconds since the Unix epoch and the fraction of a second *)

\* time.Date(2025, time.January, 20, 0, 0, 0, 0, time.UTC), in Unix seconds
InaugurationUnix == 1737331200
\* time.Date(2029, time.January, 20, 0, 0, 0, 0, time.UTC), in Unix seconds
ExitUnix == 1863561600

Date(unix) == [sec |-> unix, nsec |-> 0]

inaugurationDate == Date(InaugurationUnix)
exitDate == Date(ExitUnix)

\* t.Before(u): strictly earlier
Before(t, u) == t.sec < u.sec \/ (t.sec = u.sec /\ t.nsec < u.nsec)

\* t.After(u): strictly later
After(t, u) == u.sec < t.sec \/ (u.sec = t.sec /\ u.nsec < t.nsec)

\* the instant n clock instants after t
Add(t, n) ==
    [sec |-> t.sec + ((t.nsec + n) \div SubSec), nsec |-> (t.nsec + n) % SubSec]

\* t.UTC().Format(time.RFC3339): "2006-01-02T15:04:05Z07:00" has no fractional
\* second, so the string names the whole second and the fraction is dropped.
\* The string is represented by the Unix second it names.
FormatRFC3339(t) == t.sec

\* the instant an RFC3339 string names
ParseRFC3339(s) == [sec |-> s, nsec |-> 0]

\* t.Format("January 2, 2006"): the calendar day, represented by its number
\* since the epoch (the zone is taken to be UTC)
FormatDay(t) == t.sec \div 86400

\* the startup instants of the model: around both fixed dates
StartupSecs == {InaugurationUnix - 1, InaugurationUnix, ExitUnix - 1, ExitUnix}

StartupTimes == [sec : StartupSecs, nsec : 0 .. (SubSec - 1)]

-----------------------------------------------------------------------------
(* The environment: variables, the .env file, HTTP responses *)

Keys == {"BLUESKY_USERNAME", "BLUESKY_PASSWORD", "OPENAI_API_KEY"}

\* the value a key has when it is set (os.Getenv gives "" when it is not)
ValueOf(k) ==
    CASE k = "BLUESKY_USERNAME" -> "bot.bsky.social"
      [] k = "BLUESKY_PASSWORD" -> "app-password"
      [] k = "OPENAI_API_KEY" -> "sk-key"

Environs ==
    {e \in [Keys \cup {"ENVIRONMENT"} -> {"", "production", "bot.bsky.social",
                                           "app-password", "sk-key"}] :
        /\ e["ENVIRONMENT"] \in {"", "production"}
        /\ \A k \in Keys : e[k] \in {"", ValueOf(k)}}

\* the .env file: absent, or a file setting some of the keys
NoFile == [exists |-> FALSE, sets |-> {}]
DotenvFiles ==
    {NoFile} \cup {[exists |-> TRUE, sets |-> s] : s \in {{}, {"OPENAI_API_KEY"}, Keys}}

\* a JSON body as authenticate and postMessage decode it: valid is whether
\* json.Decoder.Decode succeeds; a member the body lacks decodes to "".
Body(valid, accessJwt, did, error, message) ==
    [valid |-> valid, accessJwt |-> accessJwt, did |-> did, error |-> error,
     message |-> message]

Malformed == Body(FALSE, "", "", "", "")

Bodies ==
    {Malformed,
     Body(TRUE, "", "", "", ""),
     Body(TRUE, "jwt-1", "did:plc:1", "", ""),
     Body(TRUE, "", "", "InvalidCredentials", "bad password"),
     Body(TRUE, "jwt-2", "did:plc:2", "ExpiredToken", "")}

StatusOK == 200
Statuses == {StatusOK, 201, 401}

\* client.Do returns an error (transport = FALSE) or a response
TransportError == [transport |-> FALSE, status |-> 0, body |-> Malformed]
Responses ==
    {TransportError} \cup [transport : {TRUE}, status : Statuses, body : Bodies]
NoResponse == [transport |-> FALSE, status |-> -1, body |-> Malformed]

\* the chat-completions body: valid is whether Decode succeeds, choices the
\* content of each choice
Contents == {"", "1000 days until Y event. Hang in there #TheFinalTrumpDown"}
GenBodies ==
    {[valid |-> FALSE, choices |-> <<>>]} \cup
    {[valid |-> TRUE, choices |-> c] :
        c \in {<<>>} \cup {<<a>> : a \in Contents} \cup
              {<<a, b>> : a \in Contents, b \in {""}}}
GenResponses ==
    {[transport |-> FALSE, status |-> 0, body |-> [valid |-> FALSE, choices |-> <<>>]]}
    \cup [transport : {TRUE}, status : Statuses, body : GenBodies]

-----------------------------------------------------------------------------
(* Values of the program *)

\* an error value: what fmt.Errorf put into it
Error(kind, status, error, message) ==
    [kind |-> kind, status |-> status, error |-> error, message |-> message]
nil == Error("nil", 0, "", "")

\* *AuthResponse: nil, or the decoded struct
NilAuthResponse == [isNil |-> TRUE, AccessJwt |-> "", Did |-> ""]
AuthResponse(accessJwt, did) ==
    [isNil |-> FALSE, AccessJwt |-> accessJwt, Did |-> did]

NoPrompt == [template |-> "", target |-> "", today |-> 0]
NoGenReq == [sent |-> FALSE, url |-> "", bearer |-> "", prompt |-> NoPrompt]
NoAuthReq == [sent |-> FALSE, url |-> "", identifier |-> "", password |-> ""]
NoPostReq ==
    [sent |-> FALSE, url |-> "", bearer |-> "", repo |-> "", collection |-> "",
     type |-> "", text |-> "", createdAt |-> 0]

authURL == "https://bsky.social/xrpc/com.atproto.server.createSession"
postURL == "https://bsky.social/xrpc/com.atproto.repo.createRecord"
openAIURL == "https://api.openai.com/v1/chat/completions"

-----------------------------------------------------------------------------
(* The functions of main.go, as functions of what they read *)

\* godotenv.Load(): every key of the file that the process environment does
\* not have is set from the file; a key already set is kept.
godotenvLoad(env, file) ==
    [k \in DOMAIN env |->
        IF k \in file.sets /\ env[k] = "" THEN ValueOf(k) ELSE env[k]]

\* main.go:39-44: main stops when the file is looked for and cannot be loaded
dotenvFatal(env, file) == env["ENVIRONMENT"] # "production" /\ ~file.exists

\* main.go:46-50: the retirement check
retired(t) == After(t, exitDate)

\* getPostPrompt with the comparison of line 236 made inclusive (not after
\* the threshold instead of before it)
getPostPromptInclusive(t) ==
    IF ~After(t, inaugurationDate)
    THEN [template |-> "until Trump's inauguration",
          target |-> "January 20th, 2025", today |-> FormatDay(t)]
    ELSE [template |-> "left of Trump's 2nd term in office",
          target |-> "January 20th, 2029", today |-> FormatDay(t)]

\* main.go:232-240: the prompt getPost builds
getPostPrompt(t) ==
    IF Before(t, inaugurationDate)
    THEN [template |-> "until Trump's inauguration",
          target |-> "January 20th, 2025", today |-> FormatDay(t)]
    ELSE [template |-> "left of Trump's 2nd term in office",
          target |-> "January 20th, 2029", today |-> FormatDay(t)]

\* main.go:198-228: what makeOpenAIRequest returns for the response r
makeOpenAIRequest(r) ==
    IF ~r.transport
    THEN [content |-> "", err |-> Error("request failed", 0, "", "")]
    ELSE IF r.status # StatusOK
    THEN [content |-> "",
          err |-> Error("received non-200 response status", r.status, "", "")]
    ELSE IF ~r.body.valid
    THEN [content |-> "", err |-> Error("failed to decode response", 0, "", "")]
    ELSE IF Len(r.body.choices) = 0
    THEN [content |-> "", err |-> Error("no response choices returned", 0, "", "")]
    ELSE [content |-> r.body.choices[1], err |-> nil]

\* main.go:165-168: makeOpenAIRequest without an API key
missingAPIKey ==
    [content |-> "",
     err |-> Error("OPENAI_API_KEY environment variable not set", 0, "", "")]

\* getPost returning a placeholder text instead of response when err is set
getPostPlaceholder(res) ==
    IF res.err.kind # "nil" THEN "Error getting AI response" ELSE res.content

\* main.go:242-247: getPost logs the error and returns response whatever err is
getPost(res) == res.content

\* authenticate with line 105 accepting every 2xx status
authenticate2xx(r) ==
    IF ~r.transport
    THEN [authResponse |-> NilAuthResponse,
          err |-> Error("auth request failed", 0, "", "")]
    ELSE IF r.status \div 100 = 2
    THEN IF ~r.body.valid
         THEN [authResponse |-> NilAuthResponse,
               err |-> Error("failed to decode auth response", 0, "", "")]
         ELSE [authResponse |-> AuthResponse(r.body.accessJwt, r.body.did),
               err |-> nil]
    ELSE IF ~r.body.valid
    THEN [authResponse |-> NilAuthResponse,
          err |-> Error("failed to decode error response", 0, "", "")]
    ELSE [authResponse |-> NilAuthResponse,
          err |-> Error("auth error", r.status, r.body.error, r.body.message)]

\* authenticate decoding the body into AuthResponse before it looks at the
\* status, and returning the struct beside the error
authenticateKeepsBody(r) ==
    IF ~r.transport
    THEN [authResponse |-> NilAuthResponse,
          err |-> Error("auth request failed", 0, "", "")]
    ELSE IF ~r.body.valid
    THEN [authResponse |-> NilAuthResponse,
          err |-> Error(IF r.status = StatusOK
                        THEN "failed to decode auth response"
                        ELSE "failed to decode error response", 0, "", "")]
    ELSE IF r.status = StatusOK
    THEN [authResponse |-> AuthResponse(r.body.accessJwt, r.body.did),
          err |-> nil]
    ELSE [authResponse |-> AuthResponse(r.body.accessJwt, r.body.did),
          err |-> Error("auth error", r.status, r.body.error, r.body.message)]

\* main.go:99-119: what authenticate returns for the response r
authenticate(r) ==
    IF ~r.transport
    THEN [authResponse |-> NilAuthResponse,
          err |-> Error("auth request failed", 0, "", "")]
    ELSE IF r.status = StatusOK
    THEN IF ~r.body.valid
         THEN [authResponse |-> NilAuthResponse,
               err |-> Error("failed to decode auth response", 0, "", "")]
         ELSE [authResponse |-> AuthResponse(r.body.accessJwt, r.body.did),
               err |-> nil]
    ELSE IF ~r.body.valid
    THEN [authResponse |-> NilAuthResponse,
          err |-> Error("failed to decode error response", 0, "", "")]
    ELSE [authResponse |-> NilAuthResponse,
          err |-> Error("auth error", r.status, r.body.error, r.body.message)]

\* postMessage stamping the record with the package variable now instead of
\* reading the clock
postBodyAtStartup(accessToken, did, message, t) ==
    [sent |-> TRUE, url |-> postURL, bearer |-> accessToken, repo |-> did,
     collection |-> "app.bsky.feed.post", type |-> "app.bsky.feed.post",
     text |-> message, createdAt |-> FormatRFC3339(now)]

\* main.go:123-142: the request postMessage builds, at the instant t
postBody(accessToken, did, message, t) ==
    [sent |-> TRUE, url |-> postURL, bearer |-> accessToken, repo |-> did,
     collection |-> "app.bsky.feed.post", type |-> "app.bsky.feed.post",
     text |-> message, createdAt |-> FormatRFC3339(t)]

\* postMessage with line 151 accepting every 2xx status
postMessage2xx(r) ==
    IF ~r.transport
    THEN Error("post request failed", 0, "", "")
    ELSE IF r.status \div 100 = 2
    THEN nil
    ELSE IF ~r.body.valid
    THEN Error("failed to decode error response", 0, "", "")
    ELSE Error("post error", r.status, r.body.error, r.body.message)

\* main.go:145-160: what postMessage returns for the response r
postMessage(r) ==
    IF ~r.transport
    THEN Error("post request failed", 0, "", "")
    ELSE IF r.status = StatusOK
    THEN nil
    ELSE IF ~r.body.valid
    THEN Error("failed to decode error response", 0, "", "")
    ELSE Error("post error", r.status, r.body.error, r.body.message)

\* the checks of lines 58 and 63 left out
notSetNever(v) == FALSE

\* the checks of lines 69 and 75 left out
failedNever(e) == FALSE

\* main.go:58, 63: a required value that is not set
notSet(v) == v = ""

\* main.go:69, 75: a call of main that failed
failed(e) == e # nil

-----------------------------------------------------------------------------
(* The run *)

Init ==
    /\ environ \in Environs
    /\ dotenv \in DotenvFiles
    /\ now \in StartupTimes
    /\ clock = now
    /\ pc = "main"
    /\ post = ""
    /\ genErr = nil
    /\ username = ""
    /\ password = ""
    /\ authResponse = NilAuthResponse
    /\ err = nil
    /\ resp = NoResponse
    /\ genReq = NoGenReq
    /\ authReq = NoAuthReq
    /\ postReq = NoPostReq
    /\ calls = <<>>
    /\ output = <<>>
    /\ exitCode = 0

\* main.go:39-44
LoadEnv ==
    /\ pc = "main"
    /\ IF dotenvFatal(environ, dotenv)
       THEN /\ pc' = "exit"
            /\ exitCode' = 1
            /\ output' = Append(output, "Error loading .env file")
            /\ UNCHANGED environ
       ELSE /\ pc' = "cutoff"
            /\ environ' = IF environ["ENVIRONMENT"] # "production"
                          THEN godotenvLoad(environ, dotenv)
                          ELSE environ
            /\ UNCHANGED <<exitCode, output>>
    /\ UNCHANGED <<dotenv, now, clock, post, genErr, username, password,
                   authResponse, err, resp, genReq, authReq, postReq, calls>>

\* main.go:46-50
CheckExitDate ==
    /\ pc = "cutoff"
    /\ IF retired(now)
       THEN pc' = "exit" /\ exitCode' = 0
       ELSE pc' = "getPost" /\ UNCHANGED exitCode
    /\ UNCHANGED <<environ, dotenv, now, clock, post, genErr, username, password,
                   authResponse, err, resp, genReq, authReq, postReq, calls, output>>

\* main.go:53-54 with getPost (231-248) and makeOpenAIRequest up to client.Do
\* (163-198): without an API key getPost returns at once, otherwise the
\* request leaves
GetPostSend ==
    /\ pc = "getPost"
    /\ IF environ["OPENAI_API_KEY"] = ""
       THEN /\ post' = getPost(missingAPIKey)
            /\ genErr' = missingAPIKey.err
            /\ output' = output \o <<"Error getting AI response", "Generated post">>
            /\ pc' = "username"
            /\ UNCHANGED <<genReq, calls>>
       ELSE /\ genReq' = [sent |-> TRUE, url |-> openAIURL,
                          bearer |-> environ["OPENAI_API_KEY"],
                          prompt |-> getPostPrompt(now)]
            /\ calls' = Append(calls, "generate.start")
            /\ pc' = "generate"
            /\ UNCHANGED <<post, genErr, output>>
    /\ UNCHANGED <<environ, dotenv, now, clock, username, password, authResponse,
                   err, resp, authReq, postReq, exitCode>>

\* main.go:198-228, 242-247, 53-54: the response arrives
GetPostReceive ==
    /\ pc = "generate"
    /\ \E r \in GenResponses, d \in 1 .. MaxElapsed :
        LET res == makeOpenAIRequest(r) IN
        /\ clock' = Add(clock, d)
        /\ post' = getPost(res)
        /\ genErr' = res.err
        /\ output' = output \o
              (IF failed(res.err) THEN <<"Error getting AI response">> ELSE <<>>)
              \o <<"Generated post">>
    /\ calls' = Append(calls, "generate.end")
    /\ pc' = "username"
    /\ UNCHANGED <<environ, dotenv, now, username, password, authResponse, err,
                   resp, genReq, authReq, postReq, exitCode>>

\* main.go:57-60
GetUsername ==
    /\ pc = "username"
    /\ username' = environ["BLUESKY_USERNAME"]
    /\ IF notSet(environ["BLUESKY_USERNAME"])
       THEN /\ pc' = "exit"
            /\ exitCode' = 1
            /\ output' = Append(output, "BLUESKY_USERNAME environment variable not set")
       ELSE /\ pc' = "password"
            /\ UNCHANGED <<exitCode, output>>
    /\ UNCHANGED <<environ, dotenv, now, clock, post, genErr, password,
                   authResponse, err, resp, genReq, authReq, postReq, calls>>

\* main.go:62-65
GetPassword ==
    /\ pc = "password"
    /\ password' = environ["BLUESKY_PASSWORD"]
    /\ IF notSet(environ["BLUESKY_PASSWORD"])
       THEN /\ pc' = "exit"
            /\ exitCode' = 1
            /\ output' = Append(output, "BLUESKY_PASSWORD environment variable not set")
       ELSE /\ pc' = "authenticate"
            /\ UNCHANGED <<exitCode, output>>
    /\ UNCHANGED <<environ, dotenv, now, clock, post, genErr, username,
                   authResponse, err, resp, genReq, authReq, postReq, calls>>

\* main.go:68 with authenticate up to client.Do (82-99)
AuthenticateSend ==
    /\ pc = "authenticate"
    /\ authReq' = [sent |-> TRUE, url |-> authURL, identifier |-> username,
                   password |-> password]
    /\ calls' = Append(calls, "authenticate.start")
    /\ pc' = "authenticating"
    /\ UNCHANGED <<environ, dotenv, now, clock, post, genErr, username, password,
                   authResponse, err, resp, genReq, postReq, output, exitCode>>

\* main.go:99-120 and 68-71: the response arrives
AuthenticateReceive ==
    /\ pc = "authenticating"
    /\ \E r \in Responses, d \in 1 .. MaxElapsed :
        LET res == authenticate(r) IN
        /\ clock' = Add(clock, d)
        /\ resp' = r
        /\ authResponse' = res.authResponse
        /\ err' = res.err
        /\ IF failed(res.err)
           THEN /\ pc' = "exit"
                /\ exitCode' = 1
                /\ output' = Append(output, "Authentication failed")
           ELSE /\ pc' = "postMessage"
                /\ output' = Append(output, "Authentication successful!")
                /\ UNCHANGED exitCode
    /\ calls' = Append(calls, "authenticate.end")
    /\ UNCHANGED <<environ, dotenv, now, post, genErr, username, password,
                   genReq, authReq, postReq>>

\* main.go:74 with postMessage up to client.Do (122-145)
PostMessageSend ==
    /\ pc = "postMessage"
    /\ postReq' = postBody(authResponse.AccessJwt, authResponse.Did, post, clock)
    /\ calls' = Append(calls, "postMessage.start")
    /\ pc' = "posting"
    /\ UNCHANGED <<environ, dotenv, now, clock, post, genErr, username, password,
                   authResponse, err, resp, genReq, authReq, output, exitCode>>

\* main.go:145-160 and 74-80: the response arrives
PostMessageReceive ==
    /\ pc = "posting"
    /\ \E r \in Responses, d \in 1 .. MaxElapsed :
        /\ clock' = Add(clock, d)
        /\ resp' = r
        /\ err' = postMessage(r)
        /\ IF failed(postMessage(r))
           THEN /\ exitCode' = 1
                /\ output' = Append(output, "Failed to post message")
           ELSE /\ exitCode' = 0
                /\ output' = output \o
                      <<"Post successful!", "Message posted successfully!">>
    /\ pc' = "exit"
    /\ calls' = Append(calls, "postMessage.end")
    /\ UNCHANGED <<environ, dotenv, now, post, genErr, username, password,
                   authResponse, genReq, authReq, postReq>>

Next ==
    \/ LoadEnv
    \/ CheckExitDate
    \/ GetPostSend
    \/ GetPostReceive
    \/ GetUsername
    \/ GetPassword
    \/ AuthenticateSend
    \/ AuthenticateReceive
    \/ PostMessageSend
    \/ PostMessageReceive

Spec == Init /\ [][Next]_vars

-----------------------------------------------------------------------------
(* Helpers for the properties *)

Has(e) == \E i \in 1 .. Len(calls) : calls[i] = e
Count(e) == Cardinality({i \in 1 .. Len(calls) : calls[i] = e})
Last(s) == IF Len(s) = 0 THEN "" ELSE s[Len(s)]
Logged(m) == \E i \in 1 .. Len(output) : output[i] = m
IsPrefix(s, t) == Len(s) <= Len(t) /\ \A i \in 1 .. Len(s) : s[i] = t[i]

BlueskyCalls ==
    <<"authenticate.start", "authenticate.end", "postMessage.start", "postMessage.end">>
GenerateCalls == <<"generate.start", "generate.end">>

\* resp is the authentication response from its arrival until the publish
\* response replaces it
RespIsAuth == Last(calls) \in {"authenticate.end", "postMessage.start"}
RespIsPost == Last(calls) = "postMessage.end"

-----------------------------------------------------------------------------
(* C1 *)

\* C1: the outbound calls of a run are totally ordered.  The calls made so far
\* are a prefix of generate, authenticate, publish (generate is missing when
\* no request was sent for want of an API key); when the authentication
\* request leaves, getPost has returned; when the publish request leaves,
\* authentication has returned without error on a status-200 response.
C1_CallsInOrder ==
    /\ \/ IsPrefix(calls, GenerateCalls \o BlueskyCalls)
       \/ IsPrefix(calls, BlueskyCalls)
    /\ authReq.sent => /\ Logged("Generated post")
                       /\ genReq.sent => Has("generate.end")
    /\ authReq.sent <=> Has("authenticate.start")
    /\ postReq.sent <=> Has("postMessage.start")
    /\ genReq.sent <=> Has("generate.start")
    /\ Last(calls) = "postMessage.start" =>
          /\ resp.transport
          /\ resp.status = 200
          /\ err = nil
          /\ ~authResponse.isNil

\* a run that made all three calls and posted
C1_Witness ==
    /\ pc = "exit"
    /\ exitCode = 0
    /\ calls = GenerateCalls \o BlueskyCalls

-----------------------------------------------------------------------------
(* C2 *)

AuthResponseIsFailure ==
    ~resp.transport \/ resp.status # 200 \/ ~resp.body.valid
PostResponseIsFailure == ~resp.transport \/ resp.status # 200

\* C2: when authenticate fails (transport error, status other than 200, body
\* that does not decode) the run is over at once with a non-zero exit and no
\* publish request; when postMessage fails the run exits non-zero and never
\* prints the success line.
C2_FailuresAreFatal ==
    /\ (Last(calls) = "authenticate.end" /\ AuthResponseIsFailure) =>
          /\ pc = "exit"
          /\ exitCode # 0
          /\ ~postReq.sent
          /\ Last(output) = "Authentication failed"
    /\ (Last(calls) = "postMessage.end" /\ PostResponseIsFailure) =>
          /\ pc = "exit"
          /\ exitCode # 0
          /\ ~Logged("Message posted successfully!")
          /\ Last(output) = "Failed to post message"
    /\ pc = "exit" => ~ENABLED Next

\* spec scenario 3: the authentication endpoint answers 401 InvalidCredentials
C2_Witness ==
    /\ Last(calls) = "authenticate.end"
    /\ resp.transport
    /\ resp.status = 401
    /\ resp.body.error = "InvalidCredentials"
    /\ exitCode = 1

-----------------------------------------------------------------------------
(* C3 *)

LoadFailed == pc = "exit" /\ Last(output) = "Error loading .env file"

\* C3: a run started on or after 2029-01-20 00:00:00 UTC, that instant
\* included, makes no network call and exits with status zero.  (Stated for
\* the runs that get past the .env load, which is C9's matter.)
C3_RetiredRunsDoNothing ==
    (now.sec >= ExitUnix /\ pc # "main" /\ ~LoadFailed) =>
        /\ calls = <<>>
        /\ ~genReq.sent /\ ~authReq.sent /\ ~postReq.sent
        /\ pc \in {"cutoff", "exit"}
        /\ pc = "exit" => exitCode = 0

-----------------------------------------------------------------------------
(* C4 *)

\* started before 2029-01-20 00:00:00 UTC
BeforeCutoff == now.sec < ExitUnix
\* started no later than that instant: the runs main.go:48 lets through
NotRetired == now.sec < ExitUnix \/ (now.sec = ExitUnix /\ now.nsec = 0)

\* C4 as stated: a run before the cutoff in which a required value (user
\* name, password or API key) is absent exits non-zero without having made any
\* outbound call.
C4_Original ==
    (pc = "exit" /\ BeforeCutoff /\ \E k \in Keys : environ[k] = "") =>
        /\ exitCode # 0
        /\ calls = <<>>

\* C4, amended: in a run the retirement check lets through, an absent BLUESKY_USERNAME or
\* BLUESKY_PASSWORD ends the run with a non-zero exit and a fatal log before
\* any authentication or publish request (the generation step has run by
\* then); an absent OPENAI_API_KEY sends no generation request and is not
\* what stops the run.
C4_MissingCredentialsAreFatal ==
    /\ (pc # "main" /\ (environ["BLUESKY_USERNAME"] = ""
                        \/ environ["BLUESKY_PASSWORD"] = "")) =>
          /\ ~authReq.sent
          /\ ~postReq.sent
          /\ pc \notin {"authenticate", "authenticating", "postMessage", "posting"}
          /\ (pc = "exit" /\ NotRetired) =>
                /\ exitCode = 1
                /\ Last(output) \in
                      {"Error loading .env file",
                       "BLUESKY_USERNAME environment variable not set",
                       "BLUESKY_PASSWORD environment variable not set"}
    /\ (pc # "main" /\ environ["OPENAI_API_KEY"] = "") =>
          /\ ~genReq.sent
          /\ ~Has("generate.start")
          /\ pc # "generate"
          /\ genErr.kind \in {"nil", "OPENAI_API_KEY environment variable not set"}
          /\ (pc = "exit" /\ exitCode # 0) =>
                Last(output) # "Error getting AI response"

\* a run with an API key and no user name: the generation call was made and
\* the run then stopped on the missing user name
C4_Witness ==
    /\ pc = "exit"
    /\ exitCode = 1
    /\ environ["BLUESKY_USERNAME"] = ""
    /\ calls = GenerateCalls
    /\ Last(output) = "BLUESKY_USERNAME environment variable not set"

-----------------------------------------------------------------------------
(* C5 *)

GenerationFailed ==
    genErr.kind \in {"OPENAI_API_KEY environment variable not set",
                     "request failed", "received non-200 response status",
                     "failed to decode response", "no response choices returned"}

\* C5: a failed generation step does not end the run.  The error is logged,
\* the message is empty, the run goes on to the credential checks and the
\* authentication; it ends only on a missing credential, a failed
\* authentication or the publish result, and a publish request sent in such a
\* run carries the empty string as its text.
C5_GenerationErrorsNotFatal ==
    GenerationFailed =>
        /\ post = ""
        /\ Logged("Error getting AI response")
        /\ Logged("Generated post")
        /\ pc \notin {"main", "cutoff", "getPost", "generate"}
        /\ pc = "exit" =>
              Last(output) \in
                 {"BLUESKY_USERNAME environment variable not set",
                  "BLUESKY_PASSWORD environment variable not set",
                  "Authentication failed", "Failed to post message",
                  "Message posted successfully!"}
        /\ (pc = "exit" /\ ~authReq.sent) =>
              (environ["BLUESKY_USERNAME"] = "" \/ environ["BLUESKY_PASSWORD"] = "")
        /\ (Has("authenticate.end") /\ ~authResponse.isNil) =>
              pc \in {"postMessage", "posting", "exit"}
        /\ (Has("authenticate.end") /\ ~authResponse.isNil /\ pc # "postMessage") =>
              postReq.sent
        /\ postReq.sent => postReq.text = ""

\* the text service answered with a non-200 status and the empty post went out
C5_Witness ==
    /\ genErr.kind = "received non-200 response status"
    /\ postReq.sent
    /\ postReq.text = ""
    /\ pc = "exit"
    /\ exitCode = 0

-----------------------------------------------------------------------------
(* C6 *)

TemplateA ==
    [template |-> "until Trump's inauguration", target |-> "January 20th, 2025"]
TemplateB ==
    [template |-> "left of Trump's 2nd term in office",
     target |-> "January 20th, 2029"]
TemplateOf(p) == [template |-> p.template, target |-> p.target]

\* C6: the prompt sent is template A (inauguration, January 20th, 2025) when
\* the startup instant is strictly before 2025-01-20 00:00:00 UTC and template
\* B (2nd term, January 20th, 2029) when it is that instant or later; it is
\* never anything else.
C6_PromptByDate ==
    genReq.sent =>
        /\ now.sec < InaugurationUnix => TemplateOf(genReq.prompt) = TemplateA
        /\ now.sec >= InaugurationUnix => TemplateOf(genReq.prompt) = TemplateB
        /\ TemplateOf(genReq.prompt) \in {TemplateA, TemplateB}

\* a run started exactly at the threshold asked for template B
C6_Witness ==
    /\ genReq.sent
    /\ now = [sec |-> InaugurationUnix, nsec |-> 0]
    /\ genReq.prompt.target = "January 20th, 2029"

-----------------------------------------------------------------------------
(* C7 *)

ErrorOfStatus(kind) == Error(kind, resp.status, resp.body.error, resp.body.message)
DecodeError == Error("failed to decode error response", 0, "", "")

\* what both calls do with a response whose status is not 200
NonOKMapping(kind) ==
    (resp.transport /\ resp.status # 200) =>
        /\ err # nil
        /\ resp.body.valid => err = ErrorOfStatus(kind)
        /\ ~resp.body.valid => err = DecodeError

\* C7 as stated: for authenticate and postMessage alike, status 200 is success
\* and any other status is an error with the status, error and message, or a
\* decode error when the body does not decode.
C7_Original ==
    /\ RespIsAuth =>
          /\ (resp.transport /\ resp.status = 200) => err = nil
          /\ NonOKMapping("auth error")
    /\ RespIsPost =>
          /\ (resp.transport /\ resp.status = 200) => err = nil
          /\ NonOKMapping("post error")

\* C7, amended: postMessage succeeds on every status 200; authenticate
\* succeeds on status 200 when the body decodes and fails with a decode error
\* when it does not.  On any other status both return an error with the
\* status code, error and message of the body, or a decode error when the body
\* does not decode; no status other than 200 is a success.
C7_StatusMapping ==
    /\ RespIsAuth =>
          /\ (resp.transport /\ resp.status = 200 /\ resp.body.valid) => err = nil
          /\ (resp.transport /\ resp.status = 200 /\ ~resp.body.valid) =>
                err = Error("failed to decode auth response", 0, "", "")
          /\ NonOKMapping("auth error")
          /\ err = nil => (resp.transport /\ resp.status = 200)
    /\ RespIsPost =>
          /\ (resp.transport /\ resp.status = 200) => err = nil
          /\ NonOKMapping("post error")
          /\ err = nil => (resp.transport /\ resp.status = 200)
          /\ Logged("Message posted successfully!") <=> err = nil

\* the publish endpoint answered 201 with an error body: not a success
C7_Witness ==
    /\ RespIsPost
    /\ resp.status = 201
    /\ resp.body.valid
    /\ err = Error("post error", 201, "ExpiredToken", "")
    /\ exitCode = 1

-----------------------------------------------------------------------------
(* C8 *)

\* C8: main holds a session only as the token and account id decoded from a
\* status-200 authentication response; any other response leaves it nil; at
\* most one publish request is sent, and it carries that token as its bearer
\* and that account id as repo.
C8_SessionIntegrity ==
    /\ ~Has("authenticate.end") => authResponse.isNil
    /\ RespIsAuth =>
          /\ ~authResponse.isNil <=>
                (resp.transport /\ resp.status = 200 /\ resp.body.valid)
          /\ ~authResponse.isNil =>
                /\ authResponse.AccessJwt = resp.body.accessJwt
                /\ authResponse.Did = resp.body.did
          /\ authResponse.isNil =>
                authResponse.AccessJwt = "" /\ authResponse.Did = ""
    /\ Count("postMessage.start") <= 1
    /\ Count("authenticate.start") <= 1
    /\ postReq.sent =>
          /\ ~authResponse.isNil
          /\ postReq.bearer = authResponse.AccessJwt
          /\ postReq.repo = authResponse.Did
          /\ postReq.url = postURL

\* the session jwt-1 / did:plc:1 was published with
C8_Witness ==
    /\ postReq.sent
    /\ postReq.bearer = "jwt-1"
    /\ postReq.repo = "did:plc:1"
    /\ Has("postMessage.end")

-----------------------------------------------------------------------------
(* C9 *)

\* C9: outside production, a missing .env file does not stop a run whose
\* required values are all in the process environment.
C9_DotenvOptional ==
    (/\ environ["ENVIRONMENT"] # "production"
     /\ ~dotenv.exists
     /\ \A k \in Keys : environ[k] # "") =>
        /\ ~LoadFailed
        /\ pc = "exit" => (Has("authenticate.start") \/ now.sec >= ExitUnix)

-----------------------------------------------------------------------------
(* C10 *)

\* C10 as stated: createdAt is never earlier than now.
C10_Original ==
    postReq.sent => ~Before(ParseRFC3339(postReq.createdAt), now)

CreatedAtIsSubmissionTime ==
    /\ Last(calls) = "postMessage.start" =>
          /\ postReq.createdAt = clock.sec
          /\ Has("generate.start") => Has("generate.end")
          /\ Has("authenticate.end")
    /\ postReq.sent => postReq.createdAt >= now.sec
    /\ genReq.sent => genReq.prompt.today = now.sec \div 86400

\* C10, amended: now is read once and never changes; createdAt is the clock
\* at the instant postMessage builds the record, after generation and
\* authentication have returned, cut to the whole second (RFC3339 without a
\* fraction); so createdAt is never earlier than the second now falls in,
\* though it can be earlier than now by less than a second.
C10_StartupVsSubmission ==
    [](CreatedAtIsSubmissionTime) /\ [][now' = now]_vars

\* a publish request built in a later second than the startup
C10_Witness ==
    /\ Last(calls) = "postMessage.start"
    /\ postReq.createdAt > now.sec
    /\ Before(now, clock)

====
